---- MODULE Spec2Model ----
(***************************************************************************)
(* Model of the users/posts HTTP service of src/src/index.ts.              *)
(*                                                                         *)
(* The process is a single Node.js event loop.  Every handler runs without *)
(* interruption up to its next `await`; the model has one action per such  *)
(* segment, so the steps of different requests interleave exactly at the   *)
(* database round trips.  The stored state is the two tables of            *)
(* src/init.sql, with their NOT NULL columns, AUTO_INCREMENT keys and the  *)
(* foreign key post.userId -> user.id ON DELETE CASCADE.                   *)
(***************************************************************************)
EXTENDS Integers, FiniteSets, Bags, TLC

(***************************************************************************)
(* Bounds of the model.                                                    *)
(***************************************************************************)
MaxUsers == 2      \* user rows ever inserted by AUTO_INCREMENT
MaxPosts == 2      \* post rows ever inserted by AUTO_INCREMENT
MaxInFlight == 2   \* requests suspended at an await at the same time

(***************************************************************************)
(* Program constants.                                                      *)
(***************************************************************************)
MaxRetries == 10   \* let retries = 10

\* A property of the JSON body that is missing (JavaScript undefined).
Undefined == "undefined"
\* The userId of a body that has none.
UndefinedId == -1

\* JavaScript truthiness of a string-or-undefined value and of a number.
Truthy(v) == v # "" /\ v # Undefined
TruthyId(n) == n # UndefinedId /\ n # 0

\* Path parameters after parseInt: the keys AUTO_INCREMENT can assign, each
\* of them absent before its insert and after its delete.
UserIds == 1 .. MaxUsers
PostIds == 1 .. MaxPosts

\* Request bodies of the full system (Spec): one non-empty string, so that
\* the rows differ by their keys and owners only; a field may be missing or
\* empty.
NewUserBodies == [firstName : {"a"}, lastName : {"a", Undefined}, email : {"a"}]
UserBodies == [firstName : {"a", ""}, lastName : {Undefined}, email : {"a"}]
PostUpdateBodies == [title : {"a", Undefined}, description : {""}]
ValidPostBodies == [title : {"a"}, description : {"a"}, userId : UserIds]
InvalidPostBodies ==
  { [title |-> "", description |-> "a", userId |-> 1],
    [title |-> "a", description |-> Undefined, userId |-> 1],
    [title |-> "a", description |-> "a", userId |-> 0],
    [title |-> "a", description |-> "a", userId |-> UndefinedId] }
PostBodies == ValidPostBodies \cup InvalidPostBodies

\* Request bodies of the update scenario (SpecFields): the rows start with
\* "a" in every field and every update carries "b", "" or nothing.
UpdateValues == {"b", "", Undefined}
UserUpdates == [firstName : UpdateValues, lastName : UpdateValues, email : UpdateValues]
PostUpdates == [title : UpdateValues, description : UpdateValues]

VARIABLES
  users,      \* table user: id -> [firstName, lastName, email]
  posts,      \* table post: id -> [title, description, userId]
  nextUserId, \* AUTO_INCREMENT counter of table user
  nextPostId, \* AUTO_INCREMENT counter of table post
  connected,  \* AppDataSource is initialized
  retries,    \* local variable of initializeDatabase
  attempts,   \* number of calls of AppDataSource.initialize() so far
  initPc,     \* where initializeDatabase is suspended
  exitCode,   \* -1 while the process runs, else the code of process.exit
  reqs,       \* bag of the requests suspended between lookup and write
  resp        \* the response sent last

vars == <<users, posts, nextUserId, nextPostId, connected, retries, attempts,
          initPc, exitCode, reqs, resp>>
dbVars == <<users, posts, nextUserId, nextPostId>>
initVars == <<connected, retries, attempts, initPc, exitCode>>

NoResp == [op |-> "none", status |-> 0, body |-> {}]

Running == exitCode = -1

(***************************************************************************)
(* Rows as the API returns them (the stored columns plus the key).         *)
(***************************************************************************)
UserJson(id, u) ==
  [id |-> id, firstName |-> u.firstName, lastName |-> u.lastName, email |-> u.email]
PostJson(id, p) ==
  [id |-> id, title |-> p.title, description |-> p.description]

(***************************************************************************)
(* Connection manager: initializeDatabase.                                 *)
(***************************************************************************)
\* `if (!retries) process.exit(1)` after the loop.
AfterLoop(r) == IF r = 0 THEN "exited" ELSE "ready"

\* Mutant of LoopTest: the loop test written `while (retries >= 0)`.
LoopTestOffByOne(r) == IF r >= 0 THEN "initialize" ELSE AfterLoop(r)

\* The loop test `while (retries)` after the 5 s delay.
LoopTest(r) == IF r # 0 THEN "initialize" ELSE AfterLoop(r)

\* await AppDataSource.initialize() resolves: break.
InitializeOk ==
  /\ Running /\ initPc = "initialize"
  /\ connected' = TRUE
  /\ initPc' = AfterLoop(retries)
  /\ exitCode' = IF AfterLoop(retries) = "exited" THEN 1 ELSE exitCode
  /\ UNCHANGED <<retries, attempts, dbVars, reqs, resp>>

\* await AppDataSource.initialize() rejects: retries -= 1, then the timer.
InitializeFail ==
  /\ Running /\ initPc = "initialize"
  /\ retries' = retries - 1
  /\ initPc' = "sleep"
  /\ UNCHANGED <<connected, attempts, exitCode, dbVars, reqs, resp>>

\* The 5 s timer fires: the loop test, then the next attempt or the exit.
TimerElapsed ==
  /\ Running /\ initPc = "sleep"
  /\ initPc' = LoopTest(retries)
  /\ attempts' = IF LoopTest(retries) = "initialize" THEN attempts + 1 ELSE attempts
  /\ exitCode' = IF LoopTest(retries) = "exited" THEN 1 ELSE exitCode
  /\ UNCHANGED <<connected, retries, dbVars, reqs, resp>>

(***************************************************************************)
(* Storage layer (init.sql) and the repository calls of the handlers.      *)
(***************************************************************************)
\* Mutant of DataSourceReady: the repositories work before initialize().
DataSourceAlwaysReady == TRUE

\* AppDataSource.getRepository(...) and the repository's calls work once
\* initialize() has resolved, and throw before.
DataSourceReady == connected

\* Mutants of FindOne: the where clause is not applied and the first (the
\* last) row of the table is returned.
FindOneFirstRow(t, id) ==
  IF DOMAIN t = {} THEN {}
  ELSE LET k == CHOOSE i \in DOMAIN t : \A j \in DOMAIN t : i <= j
       IN {[id |-> k, row |-> t[k]]}
FindOneLastRow(t, id) ==
  IF DOMAIN t = {} THEN {}
  ELSE LET k == CHOOSE i \in DOMAIN t : \A j \in DOMAIN t : i >= j
       IN {[id |-> k, row |-> t[k]]}

\* findOne({ where: { id } }): the set holding the entity with that key, or
\* the empty set for null.
FindOne(t, id) == IF id \in DOMAIN t THEN {[id |-> id, row |-> t[id]]} ELSE {}

\* NOT NULL columns without default: an insert that leaves one out fails.
NotNullOk(u) == \A f \in DOMAIN u : u[f] # Undefined

\* Mutant of ForeignKeyOk: the table has no foreign key.
ForeignKeyUnchecked(uid, us) == TRUE

\* FOREIGN KEY (userId) REFERENCES user(id): checked when a post is written.
ForeignKeyOk(uid, us) == uid \in DOMAIN us

\* ON DELETE CASCADE: the posts left after user `uid` is deleted.
CascadeDelete(ps, uid) ==
  [p \in {q \in DOMAIN ps : ps[q].userId # uid} |-> ps[p]]

\* DELETE FROM t WHERE id = ...
DeleteRow(t, id) == [i \in DOMAIN t \ {id} |-> t[i]]

\* repository.save of an entity that carries a key: update the row, or
\* insert it under that key when it is gone.
Upsert(t, id, row) == [i \in DOMAIN t \cup {id} |-> IF i = id THEN row ELSE t[i]]

\* Mutant of PostsOf: the filter on the owner is lost.
PostsOfAll(ps, uid) ==
  {[id |-> p, title |-> ps[p].title, description |-> ps[p].description] : p \in DOMAIN ps}

\* find({ where: { user: { id } } }): the posts owned by `uid`.
PostsOf(ps, uid) == {PostJson(p, ps[p]) : p \in {q \in DOMAIN ps : ps[q].userId = uid}}

\* find(): every user.
AllUsers(us) == {UserJson(i, us[i]) : i \in DOMAIN us}

\* Mutant of MergeUser: `if (firstName !== undefined) ...`, so that an empty
\* string overwrites.
MergeUserDefined(u, body) ==
  [firstName |-> IF body.firstName # Undefined THEN body.firstName ELSE u.firstName,
   lastName  |-> IF body.lastName # Undefined THEN body.lastName ELSE u.lastName,
   email     |-> IF body.email # Undefined THEN body.email ELSE u.email]

\* `if (firstName) user.firstName = firstName; ...`
MergeUser(u, body) ==
  [firstName |-> IF Truthy(body.firstName) THEN body.firstName ELSE u.firstName,
   lastName  |-> IF Truthy(body.lastName) THEN body.lastName ELSE u.lastName,
   email     |-> IF Truthy(body.email) THEN body.email ELSE u.email]

\* `post.title = title || post.title; ...`; the entity is loaded without
\* its relation, so it carries no owner.
MergePost(p, body) ==
  [title       |-> IF Truthy(body.title) THEN body.title ELSE p.title,
   description |-> IF Truthy(body.description) THEN body.description ELSE p.description]

\* Mutant of PostBodyInvalid: userId is tested for presence, not truthiness.
PostBodyInvalidPresence(body) ==
  ~Truthy(body.title) \/ ~Truthy(body.description) \/ body.userId = UndefinedId

\* `!title || !description || !userId`
PostBodyInvalid(body) ==
  ~Truthy(body.title) \/ ~Truthy(body.description) \/ ~TruthyId(body.userId)

\* res.status(status).json(body)
Respond(op, status, body) == resp' = [op |-> op, status |-> status, body |-> body]

\* A handler suspended at its second await: where, the key it works on and
\* the entity it holds.
Request(at, id, ent) == [at |-> at, id |-> id, ent |-> ent]
InFlight == BagToSet(reqs)
At(at) == {r \in InFlight : r.at = at}

\* The handler reaches its second await (a further request may be in flight
\* only below the bound).
Suspend(r) ==
  /\ BagCardinality(reqs) < MaxInFlight
  /\ reqs' = reqs (+) SetToBag({r})
Resume(r) == reqs' = reqs (-) SetToBag({r})

\* The POST /posts requests that have found their user and not yet inserted.
PendingInserts == BagCardinality(reqs) - BagCardinality(reqs (-) SetToBag(At("postPosts.save")))

(***************************************************************************)
(* GET /users                                                              *)
(***************************************************************************)
GetUsers ==
  /\ Running
  /\ IF DataSourceReady
       THEN Respond("GET /users", 200, AllUsers(users))
       ELSE Respond("GET /users", 500, {})
  /\ UNCHANGED <<dbVars, initVars, reqs>>

(***************************************************************************)
(* POST /users                                                             *)
(***************************************************************************)
PostUsers(body) ==
  /\ Running
  /\ IF DataSourceReady /\ NotNullOk(body)
       THEN /\ nextUserId <= MaxUsers
            /\ users' = Upsert(users, nextUserId, body)
            /\ nextUserId' = nextUserId + 1
            /\ Respond("POST /users", 201, {UserJson(nextUserId, body)})
       ELSE /\ Respond("POST /users", 500, {})
            /\ UNCHANGED <<users, nextUserId>>
  /\ UNCHANGED <<posts, nextPostId, initVars, reqs>>

(***************************************************************************)
(* PUT /users/:id                                                          *)
(***************************************************************************)
PutUserLookup(id, body) ==
  /\ Running
  /\ IF ~DataSourceReady
       THEN Respond("PUT /users/:id", 500, {}) /\ UNCHANGED reqs
       ELSE IF FindOne(users, id) = {}
         THEN Respond("PUT /users/:id", 404, {}) /\ UNCHANGED reqs
         ELSE /\ \E user \in FindOne(users, id) :
                   Suspend(Request("putUser.save", user.id, MergeUser(user.row, body)))
              /\ UNCHANGED resp
  /\ UNCHANGED <<dbVars, initVars>>

PutUserSave(r) ==
  /\ Running /\ r \in At("putUser.save")
  /\ users' = Upsert(users, r.id, r.ent)
  /\ Respond("PUT /users/:id", 200, {UserJson(r.id, r.ent)})
  /\ Resume(r)
  /\ UNCHANGED <<posts, nextUserId, nextPostId, initVars>>

(***************************************************************************)
(* DELETE /users/:id                                                       *)
(***************************************************************************)
DeleteUserLookup(id) ==
  /\ Running
  /\ IF ~DataSourceReady
       THEN Respond("DELETE /users/:id", 500, {}) /\ UNCHANGED reqs
       ELSE IF FindOne(users, id) = {}
         THEN Respond("DELETE /users/:id", 404, {}) /\ UNCHANGED reqs
         ELSE /\ \E user \in FindOne(users, id) :
                   Suspend(Request("deleteUser.remove", user.id, user.row))
              /\ UNCHANGED resp
  /\ UNCHANGED <<dbVars, initVars>>

\* DELETE FROM user WHERE id = ...; the storage engine deletes the posts of
\* the user in the same statement.
DeleteUserRemove(r) ==
  /\ Running /\ r \in At("deleteUser.remove")
  /\ users' = DeleteRow(users, r.id)
  /\ posts' = CascadeDelete(posts, r.id)
  /\ Respond("DELETE /users/:id", 200, {})
  /\ Resume(r)
  /\ UNCHANGED <<nextUserId, nextPostId, initVars>>

(***************************************************************************)
(* POST /posts                                                             *)
(***************************************************************************)
PostPostsLookup(body) ==
  /\ Running
  /\ IF PostBodyInvalid(body)
       THEN Respond("POST /posts", 400, {}) /\ UNCHANGED reqs
       ELSE IF ~DataSourceReady
         THEN Respond("POST /posts", 500, {}) /\ UNCHANGED reqs
         ELSE IF FindOne(users, body.userId) = {}
           THEN Respond("POST /posts", 404, {}) /\ UNCHANGED reqs
           ELSE /\ nextPostId + PendingInserts <= MaxPosts
                /\ \E user \in FindOne(users, body.userId) :
                     Suspend(Request("postPosts.save", user.id,
                                     [title |-> body.title,
                                      description |-> body.description,
                                      userId |-> user.id]))
                /\ UNCHANGED resp
  /\ UNCHANGED <<dbVars, initVars>>

\* INSERT INTO post ...: rejected by the foreign key when the user is gone.
PostPostsSave(r) ==
  /\ Running /\ r \in At("postPosts.save")
  /\ IF ForeignKeyOk(r.ent.userId, users)
       THEN /\ posts' = Upsert(posts, nextPostId, r.ent)
            /\ nextPostId' = nextPostId + 1
            /\ Respond("POST /posts", 201, {PostJson(nextPostId, r.ent)})
       ELSE /\ Respond("POST /posts", 500, {})
            /\ UNCHANGED <<posts, nextPostId>>
  /\ Resume(r)
  /\ UNCHANGED <<users, nextUserId, initVars>>

(***************************************************************************)
(* GET /users/:id/posts                                                    *)
(***************************************************************************)
GetUserPosts(id) ==
  /\ Running
  /\ IF DataSourceReady
       THEN Respond("GET /users/:id/posts", 200, PostsOf(posts, id))
       ELSE Respond("GET /users/:id/posts", 500, {})
  /\ UNCHANGED <<dbVars, initVars, reqs>>

(***************************************************************************)
(* PUT /posts/:id                                                          *)
(***************************************************************************)
PutPostLookup(id, body) ==
  /\ Running
  /\ IF ~DataSourceReady
       THEN Respond("PUT /posts/:id", 500, {}) /\ UNCHANGED reqs
       ELSE IF FindOne(posts, id) = {}
         THEN Respond("PUT /posts/:id", 404, {}) /\ UNCHANGED reqs
         ELSE /\ \E post \in FindOne(posts, id) :
                   Suspend(Request("putPost.save", post.id, MergePost(post.row, body)))
              /\ UNCHANGED resp
  /\ UNCHANGED <<dbVars, initVars>>

\* The entity has no owner: when its row is still there only title and
\* description are written; when the row is gone the insert leaves userId
\* out and the NOT NULL column rejects it.
PutPostSave(r) ==
  /\ Running /\ r \in At("putPost.save")
  /\ IF r.id \in DOMAIN posts
       THEN /\ posts' = [posts EXCEPT ![r.id] =
                           [title |-> r.ent.title,
                            description |-> r.ent.description,
                            userId |-> @.userId]]
            /\ Respond("PUT /posts/:id", 200, {PostJson(r.id, r.ent)})
       ELSE /\ Respond("PUT /posts/:id", 500, {})
            /\ UNCHANGED posts
  /\ Resume(r)
  /\ UNCHANGED <<users, nextUserId, nextPostId, initVars>>

(***************************************************************************)
(* DELETE /posts/:id                                                       *)
(***************************************************************************)
DeletePostLookup(id) ==
  /\ Running
  /\ IF ~DataSourceReady
       THEN Respond("DELETE /posts/:id", 500, {}) /\ UNCHANGED reqs
       ELSE IF FindOne(posts, id) = {}
         THEN Respond("DELETE /posts/:id", 404, {}) /\ UNCHANGED reqs
         ELSE /\ \E post \in FindOne(posts, id) :
                   Suspend(Request("deletePost.remove", post.id, post.row))
              /\ UNCHANGED resp
  /\ UNCHANGED <<dbVars, initVars>>

DeletePostRemove(r) ==
  /\ Running /\ r \in At("deletePost.remove")
  /\ posts' = DeleteRow(posts, r.id)
  /\ Respond("DELETE /posts/:id", 200, {})
  /\ Resume(r)
  /\ UNCHANGED <<users, nextUserId, nextPostId, initVars>>

(***************************************************************************)
(* The system.                                                             *)
(***************************************************************************)
\* The process right after the module has run: initializeDatabase() has made
\* its first initialize() call and the listener is up; the tables are empty.
Init ==
  /\ users = [i \in {} |-> 0]
  /\ posts = [i \in {} |-> 0]
  /\ nextUserId = 1
  /\ nextPostId = 1
  /\ connected = FALSE
  /\ retries = MaxRetries
  /\ attempts = 1
  /\ initPc = "initialize"
  /\ exitCode = -1
  /\ reqs = EmptyBag
  /\ resp = NoResp

Next ==
  \/ InitializeOk
  \/ InitializeFail
  \/ TimerElapsed
  \/ GetUsers
  \/ \E body \in NewUserBodies : PostUsers(body)
  \/ \E id \in UserIds, body \in UserBodies : PutUserLookup(id, body)
  \/ \E r \in InFlight : PutUserSave(r)
  \/ \E id \in UserIds : DeleteUserLookup(id)
  \/ \E r \in InFlight : DeleteUserRemove(r)
  \/ \E body \in PostBodies : PostPostsLookup(body)
  \/ \E r \in InFlight : PostPostsSave(r)
  \/ \E id \in UserIds : GetUserPosts(id)
  \/ \E id \in PostIds, body \in PostUpdateBodies : PutPostLookup(id, body)
  \/ \E r \in InFlight : PutPostSave(r)
  \/ \E id \in PostIds : DeletePostLookup(id)
  \/ \E r \in InFlight : DeletePostRemove(r)

Spec == Init /\ [][Next]_vars

(***************************************************************************)
(* The update scenario: the connection is up, one user and one post of     *)
(* that user are stored (the state after POST /users and POST /posts with  *)
(* "a" in every field), and PUT requests with all bodies of UserUpdates    *)
(* and PostUpdates run concurrently.                                       *)
(***************************************************************************)
InitFields ==
  /\ users = [i \in {1} |-> [firstName |-> "a", lastName |-> "a", email |-> "a"]]
  /\ posts = [i \in {1} |-> [title |-> "a", description |-> "a", userId |-> 1]]
  /\ nextUserId = 2
  /\ nextPostId = 2
  /\ connected = TRUE
  /\ retries = MaxRetries
  /\ attempts = 1
  /\ initPc = "ready"
  /\ exitCode = -1
  /\ reqs = EmptyBag
  /\ resp = [op |-> "POST /posts", status |-> 201,
             body |-> {[id |-> 1, title |-> "a", description |-> "a"]}]

NextFields ==
  \/ \E id \in UserIds, body \in UserUpdates : PutUserLookup(id, body)
  \/ \E r \in InFlight : PutUserSave(r)
  \/ \E id \in PostIds, body \in PostUpdates : PutPostLookup(id, body)
  \/ \E r \in InFlight : PutPostSave(r)

SpecFields == InitFields /\ [][NextFields]_vars

(***************************************************************************)
(* The scenario after a delete: user 1 and its post were created, a        *)
(* PUT /users/1 found the user and is suspended before its save, and then  *)
(* DELETE /users/1 has answered 200.  All handlers run from there.         *)
(***************************************************************************)
InitAfterDelete ==
  /\ users = [i \in {} |-> 0]
  /\ posts = [i \in {} |-> 0]
  /\ nextUserId = 2
  /\ nextPostId = 2
  /\ connected = TRUE
  /\ retries = MaxRetries
  /\ attempts = 1
  /\ initPc = "ready"
  /\ exitCode = -1
  /\ reqs = SetToBag({Request("putUser.save", 1,
                               [firstName |-> "a", lastName |-> "a", email |-> "a"])})
  /\ resp = [op |-> "DELETE /users/:id", status |-> 200, body |-> {}]

NextAfterDelete ==
  \/ GetUsers
  \/ \E body \in NewUserBodies : PostUsers(body)
  \/ \E id \in UserIds, body \in UserBodies : PutUserLookup(id, body)
  \/ \E r \in InFlight : PutUserSave(r)
  \/ \E id \in UserIds : DeleteUserLookup(id)
  \/ \E r \in InFlight : DeleteUserRemove(r)
  \/ \E body \in PostBodies : PostPostsLookup(body)
  \/ \E r \in InFlight : PostPostsSave(r)
  \/ \E id \in UserIds : GetUserPosts(id)
  \/ \E id \in PostIds, body \in PostUpdateBodies : PutPostLookup(id, body)
  \/ \E r \in InFlight : PutPostSave(r)
  \/ \E id \in PostIds : DeletePostLookup(id)
  \/ \E r \in InFlight : DeletePostRemove(r)

SpecAfterDelete == InitAfterDelete /\ [][NextAfterDelete]_vars

(***************************************************************************)
(* Properties.                                                             *)
(***************************************************************************)

\* C1: initializeDatabase calls initialize() at most 10 times and not again
\* after a success; the process exits, with code 1, only after the 10th
\* attempt has failed, and when the 10th attempt has failed the loop's only
\* next step is that exit.
C1_BoundedRetry ==
  /\ [](attempts \in 1 .. 10)
  /\ [](connected => initPc = "ready" /\ exitCode = -1)
  /\ [](exitCode # -1 => exitCode = 1 /\ attempts = 10 /\ ~connected)
  /\ [][connected => attempts' = attempts]_vars
  /\ [][attempts' # attempts => attempts' = attempts + 1 /\ ~connected]_vars
  /\ [][attempts = 10 /\ initPc = "sleep" => initPc' = "sleep" \/ exitCode' = 1]_vars
  /\ [][attempts < 10 /\ initPc = "sleep" => exitCode' = -1]_vars

\* C1 witness: ten attempts have failed and the process has exited.
C1_Exhausted == exitCode = 1 /\ attempts = 10 /\ retries = 0

\* C2: every stored post references a stored user.
C2_NoOrphanPost == \A p \in DOMAIN posts : posts[p].userId \in DOMAIN users

\* C2 witness: a POST /posts found its user, the user was deleted before the
\* insert, and the insert was rejected.
C2_InsertAfterDelete ==
  /\ resp = [op |-> "POST /posts", status |-> 500, body |-> {}]
  /\ nextUserId > 1

\* C3 (as stated, in the scenario after DELETE /users/1 has answered 200):
\* the removal step of DELETE /users/:id answers 200 and removes the user
\* and exactly the posts it owns, and every later GET /users/1/posts returns
\* the empty array.
C3_DeleteCascades ==
  [][/\ \A r \in At("deleteUser.remove") :
          DeleteUserRemove(r) =>
            /\ resp' = [op |-> "DELETE /users/:id", status |-> 200, body |-> {}]
            /\ r.id \notin DOMAIN users'
            /\ DOMAIN posts' = {p \in DOMAIN posts : posts[p].userId # r.id}
            /\ \A p \in DOMAIN posts' : posts'[p] = posts[p]
     /\ GetUserPosts(1) => resp'.status = 200 /\ resp'.body = {}
    ]_vars

\* C3, the storage step alone: the removal step of DELETE /users/:id answers
\* 200 and removes the user and exactly the posts it owns.
C3_RemovalStep ==
  [][\A r \in At("deleteUser.remove") :
       DeleteUserRemove(r) =>
         /\ resp' = [op |-> "DELETE /users/:id", status |-> 200, body |-> {}]
         /\ r.id \notin DOMAIN users'
         /\ DOMAIN posts' = {p \in DOMAIN posts : posts[p].userId # r.id}
         /\ \A p \in DOMAIN posts' : posts'[p] = posts[p]
    ]_vars

\* C4: POST /posts with a valid body whose userId matches no stored user
\* answers 404, leaves the tables as they are and leaves no insert pending.
C4_PostForMissingUser ==
  [][\A body \in PostBodies :
       ( /\ connected
         /\ body.title \notin {"", Undefined}
         /\ body.description \notin {"", Undefined}
         /\ body.userId \notin {0, UndefinedId}
         /\ body.userId \notin DOMAIN users
         /\ PostPostsLookup(body) )
       => /\ resp' = [op |-> "POST /posts", status |-> 404, body |-> {}]
          /\ UNCHANGED <<users, posts, nextUserId, nextPostId, reqs>>
    ]_vars

\* C4 witness: a 404 for POST /posts while users are stored.
C4_MissingUserAnswered ==
  /\ resp = [op |-> "POST /posts", status |-> 404, body |-> {}]
  /\ DOMAIN users # {}

\* C5: POST /posts with title, description or userId missing or falsy
\* answers 400, connected or not, leaves the tables as they are and leaves
\* no insert pending.
C5_BadRequest ==
  [][\A body \in PostBodies :
       ( /\ \/ body.title \in {"", Undefined}
            \/ body.description \in {"", Undefined}
            \/ body.userId \in {0, UndefinedId}
         /\ PostPostsLookup(body) )
       => /\ resp' = [op |-> "POST /posts", status |-> 400, body |-> {}]
          /\ UNCHANGED <<users, posts, nextUserId, nextPostId, reqs>>
    ]_vars

\* C5 witness: a 400 given while the connection is not established.
C5_BadRequestBeforeConnect ==
  /\ resp = [op |-> "POST /posts", status |-> 400, body |-> {}]
  /\ ~connected

C7_ListPosts ==
  /\ [](resp.op = "GET /users/:id/posts" => resp.status \in {200, 500})
  /\ [][\A id \in UserIds :
          connected /\ GetUserPosts(id) =>
            /\ resp'.status = 200
            /\ resp'.body =
                 {[id |-> p, title |-> posts[p].title, description |-> posts[p].description] :
                    p \in {q \in DOMAIN posts : posts[q].userId = id}}
            /\ UNCHANGED <<users, posts, nextUserId, nextPostId, reqs>>
       ]_vars

\* C7 witness: an empty list with status 200 while other posts are stored.
C7_EmptyList ==
  /\ resp = [op |-> "GET /users/:id/posts", status |-> 200, body |-> {}]
  /\ DOMAIN posts # {}

\* C8: while the connection is not established a request changes nothing
\* stored, suspends nothing, and is answered 500 (or 400 by the body check
\* of POST /posts, which precedes data access); no request step changes the
\* state of the retry loop; once connected, GET /users answers 200 and a
\* complete POST /users answers 201.
C8_StartupRace ==
  /\ [][~connected =>
          /\ UNCHANGED <<users, posts, nextUserId, nextPostId, reqs>>
          /\ resp' # resp =>
               \/ resp'.status = 500
               \/ resp'.op = "POST /posts" /\ resp'.status = 400
       ]_vars
  /\ [][resp' # resp \/ reqs' # reqs =>
          UNCHANGED <<connected, retries, attempts, initPc, exitCode>>]_vars
  /\ [][connected /\ GetUsers => resp'.status = 200]_vars
  /\ [][\A body \in NewUserBodies :
          connected /\ (\A f \in DOMAIN body : body[f] # Undefined) /\ PostUsers(body)
            => resp'.status = 201]_vars

\* C8 witness: an attempt has failed, the loop waits, and a request was
\* answered 500.
C8_RequestBeforeConnect ==
  /\ ~connected /\ initPc = "sleep" /\ retries < 10
  /\ resp.status = 500

\* C9: PUT and DELETE of a user or a post whose key matches no row answer
\* 404 and leave tables and pending requests as they are; a request proceeds
\* to its write (and so to 200) only for a key the lookup found.
C9_NotFound ==
  /\ [][\A id \in UserIds \ DOMAIN users :
          /\ \A body \in UserBodies :
               connected /\ PutUserLookup(id, body) =>
                 /\ resp' = [op |-> "PUT /users/:id", status |-> 404, body |-> {}]
                 /\ UNCHANGED <<users, posts, nextUserId, nextPostId, reqs>>
          /\ connected /\ DeleteUserLookup(id) =>
               /\ resp' = [op |-> "DELETE /users/:id", status |-> 404, body |-> {}]
               /\ UNCHANGED <<users, posts, nextUserId, nextPostId, reqs>>
       ]_vars
  /\ [][\A id \in PostIds \ DOMAIN posts :
          /\ \A body \in PostUpdateBodies :
               connected /\ PutPostLookup(id, body) =>
                 /\ resp' = [op |-> "PUT /posts/:id", status |-> 404, body |-> {}]
                 /\ UNCHANGED <<users, posts, nextUserId, nextPostId, reqs>>
          /\ connected /\ DeletePostLookup(id) =>
               /\ resp' = [op |-> "DELETE /posts/:id", status |-> 404, body |-> {}]
               /\ UNCHANGED <<users, posts, nextUserId, nextPostId, reqs>>
       ]_vars
  /\ [][\A r \in BagToSet(reqs') :
          CopiesIn(r, reqs') > CopiesIn(r, reqs) =>
            /\ r.at \in {"putUser.save", "deleteUser.remove"} => r.id \in DOMAIN users
            /\ r.at \in {"putPost.save", "deletePost.remove"} => r.id \in DOMAIN posts
       ]_vars
  /\ [][( /\ resp' # resp
          /\ resp'.status = 200
          /\ resp'.op \in {"PUT /users/:id", "DELETE /users/:id",
                           "PUT /posts/:id", "DELETE /posts/:id"} )
          => \E r \in InFlight : reqs' = reqs (-) SetToBag({r})
       ]_vars

\* C9 witness: a 404 for a DELETE of a user while the connection is up and
\* users have been created.
C9_DeleteOfMissing ==
  /\ resp = [op |-> "DELETE /users/:id", status |-> 404, body |-> {}]
  /\ nextUserId > 1

\* C10 (as stated, in the update scenario, where every PUT body carries "b"
\* or nothing for a field, so that a stored "b" is the value the last
\* request that set the field asked for): a field that a PUT has set is not
\* changed by the save of a request that did not set it.
C10_LastWriteWins ==
  [][/\ \A id \in DOMAIN users : \A f \in {"firstName", "lastName", "email"} :
          users[id][f] = "b" => users'[id][f] = "b"
     /\ \A id \in DOMAIN posts : \A f \in {"title", "description"} :
          posts[id][f] = "b" => posts'[id][f] = "b"
    ]_vars

====
